---- MODULE Spec2Model ----
(***************************************************************************)
(* A model of the URL cleaner of joplin2notion (src/lib/urls.js).          *)
(*                                                                         *)
(* Strings are sequences of one-character strings, so that the regular     *)
(* expressions, startsWith/endsWith/slice, the default Array sort (which   *)
(* compares UTF-16 code units) and the length comparison of the query      *)
(* rule are computed as the code computes them.  The WHATWG URL object of  *)
(* Node ("url" module) is modelled for the http and https schemes: parsing *)
(* a string into components, the component setters the cleaner uses, and   *)
(* the href serializer.                                                    *)
(***************************************************************************)
EXTENDS Integers, Sequences, FiniteSets, TLC

(***************************************************************************)
(* Bounds of the model.                                                    *)
(***************************************************************************)
\* how many "www." labels are put in front of the host of an input
MaxWww == 2
\* the longest input path, in characters, enumerated over "/" and "a"
MaxPathLen == 4
\* the longest input query, in key/value pairs, enumerated over QueryPairs
MaxPairs == 2

(***************************************************************************)
(* Characters and strings.                                                 *)
(***************************************************************************)
\* The printable ASCII characters in code-unit order, 0x20 .. 0x7E (the double
\* quote, the backslash and the backquote, which no modelled string holds, by
\* name).
Ascii ==
  <<" ", "!", "DQUOTE", "#", "$", "%", "&", "'", "(", ")", "*", "+", ",", "-", ".", "/",
    "0", "1", "2", "3", "4", "5", "6", "7", "8", "9", ":", ";", "<", "=", ">", "?",
    "@", "A", "B", "C", "D", "E", "F", "G", "H", "I", "J", "K", "L", "M", "N", "O",
    "P", "Q", "R", "S", "T", "U", "V", "W", "X", "Y", "Z", "[", "BSLASH", "]", "^", "_",
    "BQUOTE", "a", "b", "c", "d", "e", "f", "g", "h", "i", "j", "k", "l", "m", "n", "o",
    "p", "q", "r", "s", "t", "u", "v", "w", "x", "y", "z", "{", "|", "}", "~">>

AsciiChars == {Ascii[i] : i \in 1..Len(Ascii)}

\* The UTF-16 code unit of a character.
CodeTable == [c \in AsciiChars |-> 31 + (CHOOSE i \in 1..Len(Ascii) : Ascii[i] = c)]

Code(c) == CodeTable[c]

FromCode(n) == Ascii[n - 31]

IsUpper(c) == Code(c) >= 65 /\ Code(c) <= 90

IsLower(c) == Code(c) >= 97 /\ Code(c) <= 122

IsAlpha(c) == IsUpper(c) \/ IsLower(c)

IsDigit(c) == Code(c) >= 48 /\ Code(c) <= 57

\* String.prototype.toLowerCase, one character.
LowerChar(c) == IF IsUpper(c) THEN FromCode(Code(c) + 32) ELSE c

\* String.prototype.toLowerCase
ToLowerCase(s) == [i \in 1..Len(s) |-> LowerChar(s[i])]

\* String.prototype.startsWith
StartsWith(s, p) == Len(s) >= Len(p) /\ SubSeq(s, 1, Len(p)) = p

\* String.prototype.endsWith
EndsWith(s, p) == Len(s) >= Len(p) /\ SubSeq(s, Len(s) - Len(p) + 1, Len(s)) = p

\* An unanchored regular expression for a literal: s has p as a substring.
Contains(s, p) == \E i \in 1..(Len(s) - Len(p) + 1) : SubSeq(s, i, i + Len(p) - 1) = p

\* The index of the first character of s that is in the set cs, or Len(s)+1.
FirstIn(s, cs) ==
  IF \E i \in 1..Len(s) : s[i] \in cs
  THEN CHOOSE i \in 1..Len(s) : s[i] \in cs /\ \A j \in 1..(i - 1) : s[j] \notin cs
  ELSE Len(s) + 1

\* s from index i to its end.
From(s, i) == SubSeq(s, i, Len(s))

\* The comparison of the default Array.prototype.sort: by UTF-16 code units,
\* a proper prefix before the longer string.
RECURSIVE StrLess(_, _)
StrLess(a, b) ==
  IF b = <<>> THEN FALSE
  ELSE IF a = <<>> THEN TRUE
  ELSE IF Code(Head(a)) # Code(Head(b)) THEN Code(Head(a)) < Code(Head(b))
  ELSE StrLess(Tail(a), Tail(b))

\* The decimal value of a string of digits.
RECURSIVE StrToNum(_)
StrToNum(s) ==
  IF s = <<>> THEN 0
  ELSE 10 * StrToNum(SubSeq(s, 1, Len(s) - 1)) + (Code(s[Len(s)]) - 48)

\* The decimal digits of a natural number.
RECURSIVE NumToStr(_)
NumToStr(n) ==
  IF n < 10 THEN <<FromCode(48 + n)>>
  ELSE NumToStr(n \div 10) \o <<FromCode(48 + (n % 10))>>

(***************************************************************************)
(* The URL object (import { URL } from "url").  A URL is the record of its *)
(* components as the getters return them: protocol with its colon, port as *)
(* a string ("" when absent), pathname, and the query and the fragment     *)
(* with a flag each, since an empty query ("http://h/?") is not an absent  *)
(* one for href while url.search and url.hash are "" for both.             *)
(*                                                                         *)
(* The parser follows the WHATWG basic URL parser on the strings the model *)
(* enumerates: a scheme that is http or https (or no scheme at all), no    *)
(* credentials, a host whose last label is not a number, no dot segments   *)
(* and no character that the parser would percent-encode.                  *)
(***************************************************************************)
HTTP == <<"h", "t", "t", "p">>

HTTPS == <<"h", "t", "t", "p", "s">>

HTTP_COLON == HTTP \o <<":">>

HTTPS_COLON == HTTPS \o <<":">>

PORT_80 == <<"8", "0">>

PORT_443 == <<"4", "4", "3">>

\* The largest port number the parser accepts.
MaxPort == 65535

\* The default port of a special scheme, as the string url.port would hold.
DefaultPort(protocol) == IF protocol = HTTPS_COLON THEN PORT_443 ELSE PORT_80

\* Leading and trailing spaces are stripped before parsing.
RECURSIVE Trim(_)
Trim(s) ==
  IF s # <<>> /\ Head(s) = " " THEN Trim(Tail(s))
  ELSE IF s # <<>> /\ s[Len(s)] = " " THEN Trim(SubSeq(s, 1, Len(s) - 1))
  ELSE s

\* The characters a scheme may hold after its first letter.
IsSchemeChar(c) == IsAlpha(c) \/ IsDigit(c) \/ c \in {"+", "-", "."}

\* Scheme start state and scheme state: the index of the colon that ends the
\* scheme, or 0 when the string has no scheme.
SchemeEnd(s) ==
  LET ci == FirstIn(s, {":"})
  IN  IF /\ s # <<>>
         /\ IsAlpha(s[1])
         /\ ci <= Len(s)
         /\ \A i \in 2..(ci - 1) : IsSchemeChar(s[i])
      THEN ci
      ELSE 0

\* Special authority (ignore) slashes state: every leading slash is skipped.
RECURSIVE SkipSlashes(_)
SkipSlashes(s) == IF s # <<>> /\ Head(s) = "/" THEN SkipSlashes(Tail(s)) ELSE s

\* The forbidden domain code points among the printable ASCII characters.
ForbiddenHostChars == {" ", "#", "/", ":", "<", ">", "?", "@", "[", "BSLASH", "]", "^", "|", "%"}

\* The host parser accepts a domain.
ValidHost(h) == h # <<>> /\ \A i \in 1..Len(h) : h[i] \notin ForbiddenHostChars

\* The port state accepts the characters after the host's colon.
ValidPort(p) == (\A i \in 1..Len(p) : IsDigit(p[i])) /\ (p = <<>> \/ StrToNum(p) <= MaxPort)

\* The pieces of an input string, cut where the parser's states change.
Pieces(s) ==
  LET t        == Trim(s)
      ci       == SchemeEnd(t)
      rest     == SkipSlashes(From(t, ci + 1))
      authEnd  == FirstIn(rest, {"/", "?", "#"})
      auth     == SubSeq(rest, 1, authEnd - 1)
      tail     == From(rest, authEnd)
      hostEnd  == FirstIn(auth, {":"})
      pathEnd  == FirstIn(tail, {"?", "#"})
      afterP   == From(tail, pathEnd)
      hasQ     == afterP # <<>> /\ Head(afterP) = "?"
      fragAt   == FirstIn(afterP, {"#"})
  IN  [ hasScheme   |-> ci > 0,
        scheme      |-> ToLowerCase(SubSeq(t, 1, ci - 1)),
        host        |-> SubSeq(auth, 1, hostEnd - 1),
        port        |-> From(auth, hostEnd + 1),
        path        |-> SubSeq(tail, 1, pathEnd - 1),
        hasQuery    |-> hasQ,
        query       |-> IF hasQ THEN SubSeq(afterP, 2, fragAt - 1) ELSE <<>>,
        hasFragment |-> fragAt <= Len(afterP),
        fragment    |-> From(afterP, fragAt + 1) ]

\* A check that looks for a scheme only.
CanParse_SchemeOnly(s) == Pieces(s).hasScheme

\* new URL(inputUrl) does not throw.
CanParse(s) ==
  LET p == Pieces(s)
  IN  /\ p.hasScheme
      /\ p.scheme \in {HTTP, HTTPS}
      /\ ValidHost(p.host)
      /\ ValidPort(p.port)

\* new URL(inputUrl), for a string that parses: the scheme and the host are
\* lower-cased, a port equal to the scheme's default is dropped, the port is
\* written without leading zeros, and an empty path is "/".
ParseUrl(s) ==
  LET p        == Pieces(s)
      protocol == p.scheme \o <<":">>
      port     == IF p.port = <<>> THEN <<>> ELSE NumToStr(StrToNum(p.port))
  IN  [ protocol    |-> protocol,
        hostname    |-> ToLowerCase(p.host),
        port        |-> IF port = DefaultPort(protocol) THEN <<>> ELSE port,
        pathname    |-> IF p.path = <<>> THEN <<"/">> ELSE p.path,
        hasQuery    |-> p.hasQuery,
        query       |-> p.query,
        hasFragment |-> p.hasFragment,
        fragment    |-> p.fragment ]

\* url.search: the query with its question mark, "" for an absent or empty query.
Search(u) == IF u.hasQuery /\ u.query # <<>> THEN <<"?">> \o u.query ELSE <<>>

\* url.hash: the fragment with its hash sign, "" for an absent or empty fragment.
Hash(u) == IF u.hasFragment /\ u.fragment # <<>> THEN <<"#">> \o u.fragment ELSE <<>>

\* url.href: the URL serializer.
Href(u) ==
  u.protocol \o <<"/", "/">> \o u.hostname
    \o (IF u.port = <<>> THEN <<>> ELSE <<":">> \o u.port)
    \o u.pathname
    \o (IF u.hasQuery THEN <<"?">> \o u.query ELSE <<>>)
    \o (IF u.hasFragment THEN <<"#">> \o u.fragment ELSE <<>>)

\* url.protocol = p, between special schemes: the scheme changes, and a port
\* that is the new scheme's default is dropped.
SetProtocol(u, p) ==
  [u EXCEPT !.protocol = p,
            !.port = IF u.port = DefaultPort(p) THEN <<>> ELSE u.port]

\* url.hostname = h: a value the host parser rejects (the empty string, for a
\* special scheme) leaves the URL as it was.
SetHostname(u, h) == IF ValidHost(h) THEN [u EXCEPT !.hostname = ToLowerCase(h)] ELSE u

\* url.port = "": the port is removed.
ClearPort(u) == [u EXCEPT !.port = <<>>]

\* url.search = s: the empty string removes the query; otherwise one leading
\* question mark is dropped and the rest becomes the query.
SetSearch(u, s) ==
  IF s = <<>> THEN [u EXCEPT !.hasQuery = FALSE, !.query = <<>>]
  ELSE [u EXCEPT !.hasQuery = TRUE,
                 !.query = IF Head(s) = "?" THEN Tail(s) ELSE s]

\* url.hash = "": the fragment is removed.
ClearHash(u) == [u EXCEPT !.hasFragment = FALSE, !.fragment = <<>>]

\* url.pathname = p: the path of a special URL always starts with a slash, so
\* the empty string gives "/".
SetPathname(u, p) ==
  [u EXCEPT !.pathname = IF p = <<>> \/ Head(p) # "/" THEN <<"/">> \o p ELSE p]

(***************************************************************************)
(* URLSearchParams: the application/x-www-form-urlencoded parser and       *)
(* serializer.  The entries are a sequence of <<name, value>> pairs.       *)
(***************************************************************************)
IsHexDigit(c) == IsDigit(c) \/ (Code(c) >= 65 /\ Code(c) <= 70) \/ (Code(c) >= 97 /\ Code(c) <= 102)

HexValue(c) ==
  IF IsDigit(c) THEN Code(c) - 48
  ELSE IF IsUpper(c) THEN Code(c) - 55
  ELSE Code(c) - 87

HexDigit(n) == IF n < 10 THEN FromCode(48 + n) ELSE FromCode(55 + n)

\* Percent-decode: %XY becomes the character with that code, any other
\* percent sign stays.
RECURSIVE PercentDecode(_)
PercentDecode(s) ==
  IF s = <<>> THEN <<>>
  ELSE IF Head(s) = "%" /\ Len(s) >= 3 /\ IsHexDigit(s[2]) /\ IsHexDigit(s[3])
  THEN <<FromCode(16 * HexValue(s[2]) + HexValue(s[3]))>> \o PercentDecode(From(s, 4))
  ELSE <<Head(s)>> \o PercentDecode(Tail(s))

\* The serializer keeps letters, digits and * - . _ as they are, writes a
\* space as a plus sign and percent-encodes every other character.
FormEncodeChar(c) ==
  IF IsAlpha(c) \/ IsDigit(c) \/ c \in {"*", "-", ".", "_"} THEN <<c>>
  ELSE IF c = " " THEN <<"+">>
  ELSE <<"%", HexDigit(Code(c) \div 16), HexDigit(Code(c) % 16)>>

RECURSIVE FormEncode(_)
FormEncode(s) == IF s = <<>> THEN <<>> ELSE FormEncodeChar(Head(s)) \o FormEncode(Tail(s))

PlusToSpace(s) == [i \in 1..Len(s) |-> IF s[i] = "+" THEN " " ELSE s[i]]

\* One name=value piece of a query: cut at the first equals sign; a piece
\* without one has the empty value.
ParsePair(piece) ==
  LET eq == FirstIn(piece, {"="})
  IN  << PercentDecode(PlusToSpace(SubSeq(piece, 1, eq - 1))),
         PercentDecode(PlusToSpace(From(piece, eq + 1))) >>

\* The pieces between ampersands, the empty ones skipped, each parsed.
RECURSIVE ParsePieces(_)
ParsePieces(s) ==
  IF s = <<>> THEN <<>>
  ELSE LET amp   == FirstIn(s, {"&"})
           piece == SubSeq(s, 1, amp - 1)
           rest  == ParsePieces(From(s, amp + 1))
       IN  IF piece = <<>> THEN rest ELSE <<ParsePair(piece)>> \o rest

\* new URLSearchParams(init) for a string: one leading question mark is dropped.
SearchParams(init) ==
  ParsePieces(IF init # <<>> /\ Head(init) = "?" THEN Tail(init) ELSE init)

\* searchParams.toString()
RECURSIVE ParamsToString(_)
ParamsToString(entries) ==
  IF entries = <<>> THEN <<>>
  ELSE LET e == Head(entries)
       IN  FormEncode(e[1]) \o <<"=">> \o FormEncode(e[2])
             \o (IF Len(entries) > 1 THEN <<"&">> ELSE <<>>)
             \o ParamsToString(Tail(entries))

(***************************************************************************)
(* The classification tables and looksLikeTracking.                        *)
(***************************************************************************)
PARAMS_TO_REMOVE ==
  { <<"u", "t", "m", "_", "s", "o", "u", "r", "c", "e">>,
    <<"u", "t", "m", "_", "m", "e", "d", "i", "u", "m">>,
    <<"u", "t", "m", "_", "c", "a", "m", "p", "a", "i", "g", "n">>,
    <<"u", "t", "m", "_", "t", "e", "r", "m">>,
    <<"u", "t", "m", "_", "c", "o", "n", "t", "e", "n", "t">>,
    <<"f", "b", "c", "l", "i", "d">>,
    <<"r", "e", "f">>,
    <<"r", "e", "f", "_", "s", "r", "c">>,
    <<"s", "o", "u", "r", "c", "e">>,
    <<"_", "g", "a">>,
    <<"_", "g", "l">>,
    <<"_", "t", "r", "a", "c", "k", "i", "n", "g">>,
    <<"g", "c", "l", "i", "d">>,
    <<"g", "c", "l", "s", "r", "c">>,
    <<"d", "c", "l", "i", "d">>,
    <<"a", "f", "f", "i", "l", "i", "a", "t", "e", "_", "i", "d">>,
    <<"a", "f", "f", "i", "l", "i", "a", "t", "e">>,
    <<"m", "c", "_", "c", "i", "d">>,
    <<"m", "c", "_", "e", "i", "d">>,
    <<"z", "a", "n", "p", "i", "d">>,
    <<"m", "s", "c", "l", "k", "i", "d">>,
    <<"_", "h", "s", "e", "n", "c">>,
    <<"_", "h", "s", "m", "i">>,
    <<"i", "g", "s", "h", "i", "d">>,
    <<"m", "k", "t", "_", "t", "o", "k">>,
    <<"s", "e", "s", "s", "i", "o", "n", "_", "i", "d">>,
    <<"u", "s", "e", "r", "_", "i", "d">>,
    <<"v", "i", "s", "i", "t", "o", "r", "_", "i", "d">>,
    <<"p", "l", "a", "t", "f", "o", "r", "m">>,
    <<"d", "e", "v", "i", "c", "e">>,
    <<"d", "e", "v", "i", "c", "e", "_", "i", "d">>,
    <<"t", "i", "m", "e", "s", "t", "a", "m", "p">>,
    <<"t", "s">>,
    <<"t", "i", "m", "e">>,
    <<"c", "a", "c", "h", "e">>,
    <<"n", "o", "c", "a", "c", "h", "e">>,
    <<"b", "u", "s", "t">>,
    <<"c", "b">> }

PARAMS_TO_KEEP ==
  { <<"p", "a", "g", "e">>,
    <<"q">>,
    <<"s", "e", "a", "r", "c", "h">>,
    <<"i", "d">>,
    <<"c", "a", "t", "e", "g", "o", "r", "y">>,
    <<"t", "y", "p", "e">>,
    <<"s", "o", "r", "t">>,
    <<"f", "i", "l", "t", "e", "r">> }

ID == <<"i", "d">>

CLICK == <<"c", "l", "i", "c", "k">>

TRACK == <<"t", "r", "a", "c", "k">>

REF == <<"r", "e", "f">>

CAMPAIGN == <<"c", "a", "m", "p", "a", "i", "g", "n">>

SRC == <<"s", "r", "c">>

AFFILIATE == <<"a", "f", "f", "i", "l", "i", "a", "t", "e">>

\* The referrer pattern anchored at both ends.
MatchesTrackingPattern_RefAnchored(p) ==
  \/ StartsWith(p, <<"_">>)
  \/ EndsWith(p, ID)
  \/ Contains(p, CLICK)
  \/ Contains(p, TRACK)
  \/ p = REF
  \/ Contains(p, CAMPAIGN)
  \/ p = SRC
  \/ Contains(p, AFFILIATE)
  \/ StartsWith(p, <<"s", "_">>)

\* trackingPatterns.some(pattern => pattern.test(p)): the optional groups of
\* /track(ing)?/ and /ref(er(r)?)?/ add nothing to what the unanchored
\* patterns match.
MatchesTrackingPattern(p) ==
  \/ StartsWith(p, <<"_">>)
  \/ EndsWith(p, ID)
  \/ Contains(p, CLICK)
  \/ Contains(p, TRACK)
  \/ Contains(p, REF)
  \/ Contains(p, CAMPAIGN)
  \/ p = SRC
  \/ Contains(p, AFFILIATE)
  \/ StartsWith(p, <<"s", "_">>)

\* The patterns alone, the allow-list not consulted.
looksLikeTracking_NoKeepList(param) == MatchesTrackingPattern(ToLowerCase(param))

looksLikeTracking(param) ==
  IF ToLowerCase(param) \in PARAMS_TO_KEEP THEN FALSE
  ELSE MatchesTrackingPattern(ToLowerCase(param))

\* shouldRemove, for one key, when removeTracking is enabled.
IsTrackingKey(key) == ToLowerCase(key) \in PARAMS_TO_REMOVE \/ looksLikeTracking(key)

(***************************************************************************)
(* cleanUrl.  A cleaning in progress is the record of the URL object and   *)
(* the changes logged so far; each rule maps one such record to the next.  *)
(***************************************************************************)
OptionNames ==
  { "tryHttps", "removeWww", "removeTrailingSlash", "removeFragment",
    "removeTracking", "sortParams", "removeEmptyParams", "removeDefaultPorts" }

\* Every combination of the eight flags.
Options == [OptionNames -> BOOLEAN]

\* The options of a call that passes none: every flag defaults to true.
DefaultOptions == [n \in OptionNames |-> TRUE]

WWW_DOT == <<"w", "w", "w", ".">>

\* The cleaning as it stands after new URL(inputUrl).
Parsed(inputUrl) == [url |-> ParseUrl(inputUrl), changes |-> <<>>]

\* if (httpsAvailable) { url.protocol = "https:"; ... }
UpgradeRule(st, httpsAvailable) ==
  IF httpsAvailable
  THEN [url |-> SetProtocol(st.url, HTTPS_COLON),
        changes |-> Append(st.changes, "Upgraded to HTTPS")]
  ELSE st

\* hostname.replace(/^www\./, ""): the first match only.
StripWww(h) == IF StartsWith(h, WWW_DOT) THEN From(h, Len(WWW_DOT) + 1) ELSE h

WwwRule(st, o) ==
  IF o.removeWww /\ StartsWith(st.url.hostname, WWW_DOT)
  THEN [url |-> SetHostname(st.url, StripWww(st.url.hostname)),
        changes |-> Append(st.changes, "Removed www prefix")]
  ELSE st

PortRule(st, o) ==
  IF /\ o.removeDefaultPorts
     /\ \/ st.url.protocol = HTTP_COLON /\ st.url.port = PORT_80
        \/ st.url.protocol = HTTPS_COLON /\ st.url.port = PORT_443
  THEN [url |-> ClearPort(st.url),
        changes |-> Append(st.changes, "Removed default port")]
  ELSE st

\* The loop dropping every pair with an empty value, whatever the flag.
KeptParams_EmptyAlwaysDropped(entries, o) ==
  LET Keep(e) == ~(o.removeTracking /\ IsTrackingKey(e[1])) /\ Len(e[2]) > 0
  IN  SelectSeq(entries, Keep)

\* The loop over searchParams.entries(): the entries appended to cleanedParams.
RECURSIVE KeptParams(_, _)
KeptParams(entries, o) ==
  IF entries = <<>> THEN <<>>
  ELSE LET key          == Head(entries)[1]
           value        == Head(entries)[2]
           shouldRemove == o.removeTracking /\ IsTrackingKey(key)
           rest         == KeptParams(Tail(entries), o)
       IN  IF ~shouldRemove /\ (~o.removeEmptyParams \/ Len(value) > 0)
           THEN <<Head(entries)>> \o rest
           ELSE rest

\* String(entry) of a [key, value] array, which the default sort compares.
EntryString(e) == e[1] \o <<",">> \o e[2]

\* One entry put into a sorted sequence, behind the entries that do not
\* compare greater (the sort is stable).
RECURSIVE InsertSorted(_, _)
InsertSorted(sorted, e) ==
  IF sorted = <<>> THEN <<e>>
  ELSE IF StrLess(EntryString(e), EntryString(Head(sorted))) THEN <<e>> \o sorted
  ELSE <<Head(sorted)>> \o InsertSorted(Tail(sorted), e)

\* [...cleanedParams.entries()].sort()
RECURSIVE SortEntries(_)
SortEntries(entries) ==
  IF entries = <<>> THEN <<>>
  ELSE InsertSorted(SortEntries(SubSeq(entries, 1, Len(entries) - 1)),
                    entries[Len(entries)])

\* The entries that are written back to url.search.
CleanedParams(entries, o) ==
  IF o.sortParams THEN SortEntries(KeptParams(entries, o)) ELSE KeptParams(entries, o)

\* The test that decides whether the query rule logs its change.
QueryChanged(newSearch, originalParamCount) == Len(newSearch) # originalParamCount

SearchRule(st, o) ==
  IF Search(st.url) # <<>>
  THEN LET searchParams       == SearchParams(Search(st.url))
           originalParamCount == Len(ParamsToString(searchParams))
           url2 == SetSearch(st.url, ParamsToString(CleanedParams(searchParams, o)))
       IN  [url |-> url2,
            changes |-> IF QueryChanged(Search(url2), originalParamCount)
                        THEN Append(st.changes, "Removed tracking parameters")
                        ELSE st.changes]
  ELSE st

FragmentRule(st, o) ==
  IF o.removeFragment /\ Hash(st.url) # <<>>
  THEN [url |-> ClearHash(st.url),
        changes |-> Append(st.changes, "Removed URL fragment")]
  ELSE st

\* path.replace(/\/+/g, "/")
RECURSIVE CollapseSlashes(_)
CollapseSlashes(p) ==
  IF Len(p) < 2 THEN p
  ELSE IF p[1] = "/" /\ p[2] = "/" THEN CollapseSlashes(Tail(p))
  ELSE <<Head(p)>> \o CollapseSlashes(Tail(p))

\* The separators collapsed, the trailing one never stripped.
NormalizedPath_CollapseOnly(pathname, o) == CollapseSlashes(pathname)

\* The value of path when the pathname is not "/".
NormalizedPath(pathname, o) ==
  LET collapsed == CollapseSlashes(pathname)
  IN  IF o.removeTrailingSlash /\ EndsWith(collapsed, <<"/">>)
      THEN SubSeq(collapsed, 1, Len(collapsed) - 1)
      ELSE collapsed

\* The rule without its test for the root path.
PathRule_NoRootGuard(st, o) ==
  IF NormalizedPath(st.url.pathname, o) # st.url.pathname
  THEN [url |-> SetPathname(st.url, NormalizedPath(st.url.pathname, o)),
        changes |-> Append(st.changes, "Normalized path")]
  ELSE st

PathRule(st, o) ==
  IF st.url.pathname # <<"/">> /\ NormalizedPath(st.url.pathname, o) # st.url.pathname
  THEN [url |-> SetPathname(st.url, NormalizedPath(st.url.pathname, o)),
        changes |-> Append(st.changes, "Normalized path")]
  ELSE st

\* The rules with the path rule moved in front of the fragment rule.
RulesAfterUpgrade_PathFirst(st, o) ==
  FragmentRule(PathRule(SearchRule(PortRule(WwwRule(st, o), o), o), o), o)

\* cleanUrl from the www rule to the last rule.
RulesAfterUpgrade(st, o) ==
  PathRule(FragmentRule(SearchRule(PortRule(WwwRule(st, o), o), o), o), o)

\* The object with its original read from the URL object at the return.
ResultOf_OriginalAtReturn(originalUrl, st) ==
  [original |-> Href(st.url), cleaned |-> Href(st.url), changes |-> st.changes]

\* The object cleanUrl returns.
ResultOf(originalUrl, st) ==
  [original |-> originalUrl, cleaned |-> Href(st.url), changes |-> st.changes]

\* canUseHttps: the outcomes of the HEAD request.  A response is ok when its
\* status is 2xx; everything that makes fetch reject is caught.
FetchOutcomes == {"ok", "not_ok", "timeout", "network_error", "malformed", "aborted"}

\* Any response counts, whatever its status.
canUseHttps_AnyResponse(outcome) == outcome \in {"ok", "not_ok"}

canUseHttps(outcome) == outcome = "ok"

\* The request made for every scheme.
NeedsProbe_AnyScheme(url, o) == o.tryHttps

\* Whether cleanUrl awaits canUseHttps.
NeedsProbe(url, o) == o.tryHttps /\ url.protocol = HTTP_COLON

\* url.replace(/^http:/, "https:"), the address canUseHttps requests.
ProbeAddress(href) ==
  IF StartsWith(href, HTTP_COLON) THEN HTTPS_COLON \o From(href, Len(HTTP_COLON) + 1) ELSE href

\* The whole of cleanUrl on an input that parses, as a function of the
\* outcome of the request (which is read only when the request is made).
CleanUrl(inputUrl, o, outcome) ==
  ResultOf(Href(ParseUrl(inputUrl)),
           RulesAfterUpgrade(
             UpgradeRule(Parsed(inputUrl),
                         NeedsProbe(ParseUrl(inputUrl), o) /\ canUseHttps(outcome)), o))

INVALID_URL == <<"I", "n", "v", "a", "l", "i", "d", " ", "U", "R", "L", ":", " ">>

\* The message of the error cleanUrl throws.
InvalidUrlError(inputUrl) == INVALID_URL \o inputUrl

(***************************************************************************)
(* The inputs of the model.                                                *)
(***************************************************************************)
\* "http://www.example.com/a//b/?utm_source=x&page=2#frag"
URL_COMPOSITE ==
    <<"h", "t", "t", "p", ":", "/", "/", "w", "w", "w", ".", "e", "x", "a", "m", "p",
      "l", "e", ".", "c", "o", "m", "/", "a", "/", "/", "b", "/", "?", "u", "t", "m",
      "_", "s", "o", "u", "r", "c", "e", "=", "x", "&", "p", "a", "g", "e", "=", "2",
      "#", "f", "r", "a", "g">>

\* "http://example.com:80/x"
URL_PORT_80 ==
    <<"h", "t", "t", "p", ":", "/", "/", "e", "x", "a", "m", "p", "l", "e", ".", "c",
      "o", "m", ":", "8", "0", "/", "x">>

\* "https://example.com/"
URL_ROOT ==
    <<"h", "t", "t", "p", "s", ":", "/", "/", "e", "x", "a", "m", "p", "l", "e", ".",
      "c", "o", "m", "/">>

\* "https://example.com/?b=2&a=1&a=2"
URL_SORT ==
    <<"h", "t", "t", "p", "s", ":", "/", "/", "e", "x", "a", "m", "p", "l", "e", ".",
      "c", "o", "m", "/", "?", "b", "=", "2", "&", "a", "=", "1", "&", "a", "=", "2">>

\* "http://www.example.com/path/?utm_source=test&page=2#section"
URL_TEST_1 ==
    <<"h", "t", "t", "p", ":", "/", "/", "w", "w", "w", ".", "e", "x", "a", "m", "p",
      "l", "e", ".", "c", "o", "m", "/", "p", "a", "t", "h", "/", "?", "u", "t", "m",
      "_", "s", "o", "u", "r", "c", "e", "=", "t", "e", "s", "t", "&", "p", "a", "g",
      "e", "=", "2", "#", "s", "e", "c", "t", "i", "o", "n">>

\* "https://example.com/path//"
URL_TEST_2 ==
    <<"h", "t", "t", "p", "s", ":", "/", "/", "e", "x", "a", "m", "p", "l", "e", ".",
      "c", "o", "m", "/", "p", "a", "t", "h", "/", "/">>

\* "http://example.com:80/path?fbclid=123&q=test&ref=social"
URL_TEST_3 ==
    <<"h", "t", "t", "p", ":", "/", "/", "e", "x", "a", "m", "p", "l", "e", ".", "c",
      "o", "m", ":", "8", "0", "/", "p", "a", "t", "h", "?", "f", "b", "c", "l", "i",
      "d", "=", "1", "2", "3", "&", "q", "=", "t", "e", "s", "t", "&", "r", "e", "f",
      "=", "s", "o", "c", "i", "a", "l">>

\* "https://www.site.com/article/?_ga=1.2.3.4&utm_campaign=spring#top"
URL_TEST_4 ==
    <<"h", "t", "t", "p", "s", ":", "/", "/", "w", "w", "w", ".", "s", "i", "t", "e",
      ".", "c", "o", "m", "/", "a", "r", "t", "i", "c", "l", "e", "/", "?", "_", "g",
      "a", "=", "1", ".", "2", ".", "3", ".", "4", "&", "u", "t", "m", "_", "c", "a",
      "m", "p", "a", "i", "g", "n", "=", "s", "p", "r", "i", "n", "g", "#", "t", "o",
      "p">>

\* "https://example.com/?ID=7&uid=8&Page=1"
URL_KEEP_ID ==
    <<"h", "t", "t", "p", "s", ":", "/", "/", "e", "x", "a", "m", "p", "l", "e", ".",
      "c", "o", "m", "/", "?", "I", "D", "=", "7", "&", "u", "i", "d", "=", "8", "&",
      "P", "a", "g", "e", "=", "1">>

\* "https://example.com/?page=1&q=2&search=3&id=4&category=5&type=6&sort=7&filter=8"
URL_KEEP_ALL ==
    <<"h", "t", "t", "p", "s", ":", "/", "/", "e", "x", "a", "m", "p", "l", "e", ".",
      "c", "o", "m", "/", "?", "p", "a", "g", "e", "=", "1", "&", "q", "=", "2", "&",
      "s", "e", "a", "r", "c", "h", "=", "3", "&", "i", "d", "=", "4", "&", "c", "a",
      "t", "e", "g", "o", "r", "y", "=", "5", "&", "t", "y", "p", "e", "=", "6", "&",
      "s", "o", "r", "t", "=", "7", "&", "f", "i", "l", "t", "e", "r", "=", "8">>

\* "https://example.com/?a*=1&a=2"
URL_KEY_ORDER ==
    <<"h", "t", "t", "p", "s", ":", "/", "/", "e", "x", "a", "m", "p", "l", "e", ".",
      "c", "o", "m", "/", "?", "a", "*", "=", "1", "&", "a", "=", "2">>

\* "https://example.com/?a"
URL_BARE_KEY ==
    <<"h", "t", "t", "p", "s", ":", "/", "/", "e", "x", "a", "m", "p", "l", "e", ".",
      "c", "o", "m", "/", "?", "a">>

\* "https://example.com/?a=b=c"
URL_TWO_EQUALS ==
    <<"h", "t", "t", "p", "s", ":", "/", "/", "e", "x", "a", "m", "p", "l", "e", ".",
      "c", "o", "m", "/", "?", "a", "=", "b", "=", "c">>

\* "https://example.com/?a=1&&b=2"
URL_EMPTY_PIECE ==
    <<"h", "t", "t", "p", "s", ":", "/", "/", "e", "x", "a", "m", "p", "l", "e", ".",
      "c", "o", "m", "/", "?", "a", "=", "1", "&", "&", "b", "=", "2">>

\* "https://example.com/?"
URL_EMPTY_QUERY ==
    <<"h", "t", "t", "p", "s", ":", "/", "/", "e", "x", "a", "m", "p", "l", "e", ".",
      "c", "o", "m", "/", "?">>

\* "https://example.com/?&"
URL_ONLY_AMP ==
    <<"h", "t", "t", "p", "s", ":", "/", "/", "e", "x", "a", "m", "p", "l", "e", ".",
      "c", "o", "m", "/", "?", "&">>

\* "https://example.com/?a=%41+b"
URL_ENCODED ==
    <<"h", "t", "t", "p", "s", ":", "/", "/", "e", "x", "a", "m", "p", "l", "e", ".",
      "c", "o", "m", "/", "?", "a", "=", "%", "4", "1", "+", "b">>

\* "https://example.com/a#"
URL_EMPTY_FRAGMENT ==
    <<"h", "t", "t", "p", "s", ":", "/", "/", "e", "x", "a", "m", "p", "l", "e", ".",
      "c", "o", "m", "/", "a", "#">>

\* "HTTP://WWW.Example.COM"
URL_UPPER ==
    <<"H", "T", "T", "P", ":", "/", "/", "W", "W", "W", ".", "E", "x", "a", "m", "p",
      "l", "e", ".", "C", "O", "M">>

\* "http://www./"
URL_WWW_ONLY ==
    <<"h", "t", "t", "p", ":", "/", "/", "w", "w", "w", ".", "/">>

\* " https://example.com/a/ "
URL_SPACES ==
    <<" ", "h", "t", "t", "p", "s", ":", "/", "/", "e", "x", "a", "m", "p", "l", "e",
      ".", "c", "o", "m", "/", "a", "/", " ">>

\* "https://example.com:080/"
URL_PORT_080 ==
    <<"h", "t", "t", "p", "s", ":", "/", "/", "e", "x", "a", "m", "p", "l", "e", ".",
      "c", "o", "m", ":", "0", "8", "0", "/">>

\* "http://example.com:443/x"
URL_HTTP_443 ==
    <<"h", "t", "t", "p", ":", "/", "/", "e", "x", "a", "m", "p", "l", "e", ".", "c",
      "o", "m", ":", "4", "4", "3", "/", "x">>

\* "https://example.com:443/x"
URL_HTTPS_443 ==
    <<"h", "t", "t", "p", "s", ":", "/", "/", "e", "x", "a", "m", "p", "l", "e", ".",
      "c", "o", "m", ":", "4", "4", "3", "/", "x">>

\* "https://example.com:80/x"
URL_HTTPS_80 ==
    <<"h", "t", "t", "p", "s", ":", "/", "/", "e", "x", "a", "m", "p", "l", "e", ".",
      "c", "o", "m", ":", "8", "0", "/", "x">>

\* "http://example.com:8080/x"
URL_HTTP_8080 ==
    <<"h", "t", "t", "p", ":", "/", "/", "e", "x", "a", "m", "p", "l", "e", ".", "c",
      "o", "m", ":", "8", "0", "8", "0", "/", "x">>

\* "http:example.com"
URL_NO_SLASHES ==
    <<"h", "t", "t", "p", ":", "e", "x", "a", "m", "p", "l", "e", ".", "c", "o", "m">>

\* "not a url"
BAD_WORDS ==
    <<"n", "o", "t", " ", "a", " ", "u", "r", "l">>

\* "example.com/a"
BAD_NO_SCHEME ==
    <<"e", "x", "a", "m", "p", "l", "e", ".", "c", "o", "m", "/", "a">>

\* "http://"
BAD_NO_HOST ==
    <<"h", "t", "t", "p", ":", "/", "/">>

\* "http://example.com:99999/"
BAD_PORT_RANGE ==
    <<"h", "t", "t", "p", ":", "/", "/", "e", "x", "a", "m", "p", "l", "e", ".", "c",
      "o", "m", ":", "9", "9", "9", "9", "9", "/">>

\* "http://example.com:8a/"
BAD_PORT_TEXT ==
    <<"h", "t", "t", "p", ":", "/", "/", "e", "x", "a", "m", "p", "l", "e", ".", "c",
      "o", "m", ":", "8", "a", "/">>

\* "http://exa mple.com/"
BAD_HOST_SPACE ==
    <<"h", "t", "t", "p", ":", "/", "/", "e", "x", "a", " ", "m", "p", "l", "e", ".",
      "c", "o", "m", "/">>

\* ""
BAD_EMPTY ==
    <<>>

\* The four URLs of testUrlCleaning, the examples of the documentation and
\* inputs that meet the corners of the parser and of the rules.
ExampleInputs ==
  { URL_COMPOSITE,
    URL_PORT_80,
    URL_ROOT,
    URL_SORT,
    URL_TEST_1,
    URL_TEST_2,
    URL_TEST_3,
    URL_TEST_4,
    URL_KEEP_ID,
    URL_KEEP_ALL,
    URL_KEY_ORDER,
    URL_BARE_KEY,
    URL_TWO_EQUALS,
    URL_EMPTY_PIECE,
    URL_EMPTY_QUERY,
    URL_ONLY_AMP,
    URL_ENCODED,
    URL_EMPTY_FRAGMENT,
    URL_UPPER,
    URL_WWW_ONLY,
    URL_SPACES,
    URL_PORT_080,
    URL_HTTP_443,
    URL_HTTPS_443,
    URL_HTTPS_80,
    URL_HTTP_8080,
    URL_NO_SLASHES }

\* Strings that new URL rejects.
InvalidInputs ==
  { BAD_WORDS,
    BAD_NO_SCHEME,
    BAD_NO_HOST,
    BAD_PORT_RANGE,
    BAD_PORT_TEXT,
    BAD_HOST_SPACE,
    BAD_EMPTY }

COLON_SLASHES == <<":", "/", "/">>

EXAMPLE_COM == <<"e", "x", "a", "m", "p", "l", "e", ".", "c", "o", "m">>

RECURSIVE Repeat(_, _)
Repeat(s, k) == IF k = 0 THEN <<>> ELSE s \o Repeat(s, k - 1)

\* Every string of at most n characters of the set cs.
StringsUpTo(cs, n) == UNION {[1..k -> cs] : k \in 0..n}

\* Hosts with up to MaxWww leading "www." labels, under both schemes.
HostInputs ==
  { sch \o COLON_SLASHES \o Repeat(WWW_DOT, k) \o EXAMPLE_COM \o <<"/">> :
      sch \in {HTTP, HTTPS}, k \in 0..MaxWww }

\* The absent path and every path of at most MaxPathLen slashes and letters.
PathInputs ==
  { HTTPS \o COLON_SLASHES \o EXAMPLE_COM \o p :
      p \in {<<>>} \cup { <<"/">> \o r : r \in StringsUpTo({"/", "a"}, MaxPathLen - 1) } }

\* A tracking pair, an allow-listed pair, a pair with an empty value and two
\* pairs with one key, the greater value first.
QueryPairs ==
  { << <<"u", "t", "m", "_", "s", "o", "u", "r", "c", "e">>, <<"x">> >>,
    << <<"p", "a", "g", "e">>, <<"2">> >>,
    << <<"b">>, <<>> >>,
    << <<"a">>, <<"2">> >>,
    << <<"a">>, <<"1">> >> }

\* key=value&key=value as it is typed, nothing encoded.
RECURSIVE RawQuery(_)
RawQuery(ps) ==
  IF ps = <<>> THEN <<>>
  ELSE Head(ps)[1] \o <<"=">> \o Head(ps)[2]
         \o (IF Len(ps) > 1 THEN <<"&">> ELSE <<>>) \o RawQuery(Tail(ps))

\* Every query of one to MaxPairs of these pairs, in every order.
QueryInputs ==
  { HTTPS \o COLON_SLASHES \o EXAMPLE_COM \o <<"/", "p", "?">> \o RawQuery(ps) :
      ps \in StringsUpTo(QueryPairs, MaxPairs) \ {<<>>} }

ValidInputs == ExampleInputs \cup HostInputs \cup PathInputs \cup QueryInputs

Inputs == ValidInputs \cup InvalidInputs

(***************************************************************************)
(* One call of cleanUrl as a state machine.  The function runs without     *)
(* interruption except at its one await, so a call is: Call, up to the     *)
(* throw, the await or the return; FetchSettles, the HEAD request of       *)
(* canUseHttps resolving or rejecting; Resume, from the await to the       *)
(* return.                                                                 *)
(***************************************************************************)
VARIABLES
  pc,          \* "idle", "awaiting", "returned" or "thrown"
  inputUrl,    \* the argument inputUrl
  options,     \* the argument options, as destructured into the eight flags
  cleaning,    \* the locals url and changes
  originalUrl, \* the local originalUrl
  fetch,       \* "none", "pending" or the outcome of the request
  requests,    \* the addresses requested so far
  result,      \* the object returned, once pc = "returned"
  error,       \* the message thrown, once pc = "thrown"
  timer        \* the timeout of the request: "none", "armed" or "unarmed"

cleanUrlVars ==
  <<pc, inputUrl, options, cleaning, originalUrl, fetch, requests, result, error, timer>>

\* The state of the classification of one parameter name, which a call of
\* cleanUrl leaves alone.
VARIABLES
  param,       \* the name given to the classification
  verdict      \* "none", then "remove" or "keep"

classifierVars == <<param, verdict>>

\* The state of one run of processNotionUrls, which a call of cleanUrl made
\* on its own leaves alone too.
VARIABLES
  dryRun,        \* the option dryRun
  batchSize,     \* the option batchSize
  run,           \* the locals of processNotionUrls: its position, dbIndex (the
                 \* place in DATABASE_IDS), urlProperties, pages, i,
                 \* batchPromises and stats
  notionUpdates, \* the calls of notion.pages.update sent so far
  errorLog       \* what console.error has reported so far

tidyVars == <<dryRun, batchSize, run, notionUpdates, errorLog>>

vars == <<cleanUrlVars, classifierVars, tidyVars>>

ZeroStats ==
  [ totalDatabases |-> 0, totalPages |-> 0, totalUrlsProcessed |-> 0,
    totalUrlsChanged |-> 0, errors |-> 0 ]

\* processNotionUrls has not been called.
NotStarted ==
  [ pc |-> "start", dbIndex |-> 0, urlProperties |-> <<>>, pages |-> <<>>, i |-> 0,
    batchPromises |-> <<>>, stats |-> ZeroStats ]

\* No run of processNotionUrls is under way.
TidyIdle ==
  /\ dryRun = TRUE
  /\ batchSize = 1
  /\ run = NotStarted
  /\ notionUpdates = <<>>
  /\ errorLog = <<>>

\* No name is being classified.
ClassifierIdle == param = <<>> /\ verdict = "none"

NoUrl ==
  [ protocol |-> <<>>, hostname |-> <<>>, port |-> <<>>, pathname |-> <<>>,
    hasQuery |-> FALSE, query |-> <<>>, hasFragment |-> FALSE, fragment |-> <<>> ]

NoResult == [original |-> <<>>, cleaned |-> <<>>, changes |-> <<>>]

\* A caller is about to call cleanUrl with any of the inputs and any
\* combination of the flags.
Init ==
  /\ pc = "idle"
  /\ inputUrl \in Inputs
  /\ options \in Options
  /\ cleaning = [url |-> NoUrl, changes |-> <<>>]
  /\ originalUrl = <<>>
  /\ fetch = "none"
  /\ requests = <<>>
  /\ result = NoResult
  /\ error = <<>>
  /\ timer = "none"
  /\ ClassifierIdle
  /\ TidyIdle

\* The option timeout: 5000 is read by the releases of node-fetch that have
\* it and ignored by those that do not, and the source does not say which one
\* is imported: the request is sent with its timer armed or not.
TimerSettings == {"armed", "unarmed"}

\* cleanUrl(inputUrl, options) from its first line to the throw, to the await
\* of canUseHttps (which has sent its request by then), or to the return.
Call ==
  /\ pc = "idle"
  /\ IF ~CanParse(inputUrl)
     THEN /\ pc' = "thrown"
          /\ error' = InvalidUrlError(inputUrl)
          /\ UNCHANGED <<cleaning, originalUrl, fetch, requests, result, timer>>
     ELSE     /\ originalUrl' = Href(ParseUrl(inputUrl))
              /\ error' = error
              /\ IF NeedsProbe(ParseUrl(inputUrl), options)
                 THEN /\ pc' = "awaiting"
                      /\ cleaning' = Parsed(inputUrl)
                      /\ fetch' = "pending"
                      /\ timer' \in TimerSettings
                      /\ requests' = Append(requests, ProbeAddress(Href(ParseUrl(inputUrl))))
                      /\ result' = result
                 ELSE /\ pc' = "returned"
                      /\ cleaning' = RulesAfterUpgrade(Parsed(inputUrl), options)
                      /\ result' = ResultOf(originalUrl', cleaning')
                      /\ UNCHANGED <<fetch, requests, timer>>
  /\ UNCHANGED <<inputUrl, options, classifierVars, tidyVars>>

\* The request of canUseHttps ends: a response, ok or not, or a rejection.
\* The rejection by timeout is the timer's, so it needs the timer armed; the
\* other outcomes are the target's and the network's.
FetchSettles(outcome) ==
  /\ pc = "awaiting"
  /\ fetch = "pending"
  /\ outcome = "timeout" => timer = "armed"
  /\ fetch' = outcome
  /\ UNCHANGED <<pc, inputUrl, options, cleaning, originalUrl, requests, result, error,
                 timer, classifierVars, tidyVars>>

\* canUseHttps returns and cleanUrl runs from its await to its return.
Resume ==
  /\ pc = "awaiting"
  /\ fetch # "pending"
  /\ pc' = "returned"
  /\ cleaning' = RulesAfterUpgrade(UpgradeRule(cleaning, canUseHttps(fetch)), options)
  /\ result' = ResultOf(originalUrl, cleaning')
  /\ UNCHANGED <<inputUrl, options, originalUrl, fetch, requests, error, timer,
                 classifierVars, tidyVars>>

Next ==
  \/ Call
  \/ \E outcome \in FetchOutcomes : FetchSettles(outcome)
  \/ Resume

Spec == Init /\ [][Next]_vars

\* Call and Resume are the only steps that change pc, so each is told by
\* what it does to pc.
Starts == pc = "idle" /\ pc' \in {"thrown", "awaiting", "returned"}

Resumes == pc = "awaiting" /\ fetch # "pending" /\ pc' = "returned"

\* The scheduling of a call.  Node runs a continuation that is ready, so the
\* call starts and, once the request has settled, resumes; an armed timer
\* fires.  Nothing makes the target of the request answer.
LiveSpec ==
  /\ Spec
  /\ WF_pc(Starts)
  /\ WF_pc(Resumes)
  /\ WF_vars(FetchSettles("timeout"))

(***************************************************************************)
(* The claims.                                                             *)
(***************************************************************************)
Returned == pc = "returned"

\* How often x occurs in the sequence s.
Count(s, x) == Cardinality({i \in 1..Len(s) : s[i] = x})

\* The entries of the query of a URL string.
EntriesOf(href) == SearchParams(Search(ParseUrl(href)))

\* The keys of the entries never decrease, in code-unit order.
KeysSorted(entries) ==
  \A i \in 1..(Len(entries) - 1) : ~StrLess(entries[i + 1][1], entries[i][1])

\* A parsed URL on which no enabled rule has anything to do: https when the
\* upgrade is enabled, no www label, no default port, no fragment, no doubled
\* and no trailing separator, and a query in its serialized form that holds
\* only kept, non-empty parameters in key order.
AlreadyClean(u, o) ==
  LET entries == SearchParams(Search(u))
  IN  /\ o.tryHttps => u.protocol = HTTPS_COLON
      /\ o.removeWww => ~StartsWith(u.hostname, WWW_DOT)
      /\ o.removeDefaultPorts => u.port # DefaultPort(u.protocol)
      /\ o.removeFragment => ~u.hasFragment
      /\ ~Contains(u.pathname, <<"/", "/">>)
      /\ o.removeTrailingSlash => (u.pathname = <<"/">> \/ ~EndsWith(u.pathname, <<"/">>))
      /\ u.query = ParamsToString(entries)
      /\ o.removeTracking => \A i \in 1..Len(entries) : ~IsTrackingKey(entries[i][1])
      /\ o.removeEmptyParams => \A i \in 1..Len(entries) : entries[i][2] # <<>>
      /\ o.sortParams => KeysSorted(entries)

\* C1 (as claimed): cleaning is idempotent.  For every input that parses,
\* every combination of the flags and a fixed outcome of the HTTPS request,
\* cleaning the cleaned URL again with the same flags and the same outcome
\* gives the same string.
C1_Idempotent ==
  Returned =>
    /\ CanParse(result.cleaned)
    /\ CleanUrl(result.cleaned, options, fetch).cleaned = result.cleaned

\* C2 (as claimed): no-op reporting.  When the parsed input already satisfies
\* every enabled rule, the result has no changes and cleaned = original.
C2_NoOpReporting ==
  (Returned /\ AlreadyClean(ParseUrl(inputUrl), options)) =>
    /\ result.changes = <<>>
    /\ result.cleaned = result.original

\* C3: an input that does not parse makes cleanUrl throw the invalid-URL error
\* carrying the input, under every combination of the flags: the call never
\* awaits and never returns, no result and no change is produced, and no
\* request is sent.
C3_InvalidInputThrows ==
  inputUrl \in InvalidInputs =>
    /\ pc \in {"idle", "thrown"}
    /\ pc = "thrown" => error = INVALID_URL \o inputUrl
    /\ result = NoResult
    /\ cleaning.changes = <<>>
    /\ fetch = "none"
    /\ requests = <<>>

\* C3, reached: "not a url" with the default flags has thrown.
C3_Witness ==
  /\ pc = "thrown"
  /\ inputUrl = BAD_WORDS
  /\ options = DefaultOptions
  /\ error = INVALID_URL \o BAD_WORDS

\* The request has ended in one of the failures.
FetchFailed == fetch \in FetchOutcomes \ {"ok"}

\* C4: a failed HTTPS request degrades silently.  Whatever the failure (a
\* response that is not ok, a timeout, a network error, a malformed response,
\* an abort), nothing is thrown, and what the call returns keeps the http
\* scheme, does not log the upgrade and is otherwise what the same call with
\* tryHttps disabled returns.
C4_ProbeFailureSilent ==
  FetchFailed =>
    /\ pc \in {"awaiting", "returned"}
    /\ error = <<>>
    /\ Returned =>
         /\ StartsWith(result.cleaned, HTTP_COLON)
         /\ Count(result.changes, "Upgraded to HTTPS") = 0
         /\ result = CleanUrl(inputUrl, [options EXCEPT !.tryHttps = FALSE], "none")

\* C4, reached: the request for the composite example was aborted and the
\* four other rules have still been applied.
C4_Witness ==
  /\ Returned
  /\ fetch = "aborted"
  /\ inputUrl = URL_COMPOSITE
  /\ options = DefaultOptions
  /\ result.changes = <<"Removed www prefix", "Removed tracking parameters",
                        "Removed URL fragment", "Normalized path">>

UpperChar(c) == IF IsLower(c) THEN FromCode(Code(c) - 32) ELSE c

\* A name as written, in capitals, and with a capital first letter.
CaseVariants(n) ==
  { n,
    [i \in 1..Len(n) |-> UpperChar(n[i])],
    [i \in 1..Len(n) |-> IF i = 1 THEN UpperChar(n[i]) ELSE n[i]] }

\* The allow-listed names in their letter cases.
AllowListedNames == UNION {CaseVariants(n) : n \in PARAMS_TO_KEEP}

\* Those of them that are decided 'tracking'.
AllowListedTracking == {n \in AllowListedNames : IsTrackingKey(n)}

\* C5: the allow-list takes precedence.  Every allow-listed name, in any
\* letter case, is decided 'not tracking' although some match a pattern
\* ("id" ends with "id"), and with removeTracking enabled every parameter of
\* the input whose lower-cased name is allow-listed and whose value is not
\* empty is still in the cleaned query, as often as it was in the input.
C5_AllowListPrecedence ==
  /\ AllowListedTracking = {}
  /\ (Returned /\ options.removeTracking) =>
       LET before == EntriesOf(result.original)
           after  == EntriesOf(result.cleaned)
       IN  \A i \in 1..Len(before) :
             (ToLowerCase(before[i][1]) \in PARAMS_TO_KEEP /\ before[i][2] # <<>>) =>
               Count(after, before[i]) = Count(before, before[i])

\* "ID=7&Page=1"
QUERY_KEPT_ID ==
  <<"I", "D", "=", "7", "&", "P", "a", "g", "e", "=", "1">>

\* C5, reached: of ID=7&uid=8&Page=1 the two allow-listed parameters are
\* kept, in whatever order, and uid, which ends with "id" too, is removed.
C5_Witness ==
  /\ Returned
  /\ inputUrl = URL_KEEP_ID
  /\ options = [DefaultOptions EXCEPT !.sortParams = FALSE]
  /\ ParseUrl(result.cleaned).query = QUERY_KEPT_ID

\* "https://example.com/a/b?page=2"
URL_COMPOSITE_CLEANED ==
  <<"h", "t", "t", "p", "s", ":", "/", "/", "e", "x", "a", "m", "p", "l", "e", ".",
    "c", "o", "m", "/", "a", "/", "b", "?", "p", "a", "g", "e", "=", "2">>

\* C6: the composite example.  With every flag enabled and HTTPS available,
\* http://www.example.com/a//b/?utm_source=x&page=2#frag is cleaned to
\* https://example.com/a/b?page=2, and the changes hold one entry each for the
\* upgrade, the www prefix, the tracking parameters, the fragment and the path.
C6_Composite ==
  (Returned /\ inputUrl = URL_COMPOSITE /\ options = DefaultOptions /\ fetch = "ok") =>
    /\ result.cleaned = URL_COMPOSITE_CLEANED
    /\ \A c \in {"Upgraded to HTTPS", "Removed www prefix", "Removed tracking parameters",
                 "Removed URL fragment", "Normalized path"} :
         Count(result.changes, c) = 1

\* C6, reached: the composite example has been cleaned after a successful
\* request.
C6_Witness ==
  /\ Returned
  /\ inputUrl = URL_COMPOSITE
  /\ options = DefaultOptions
  /\ fetch = "ok"
  /\ Len(result.changes) = 5

\* The entries of s with the key k, in their order.
WithKey(s, k) == LET HasKey(e) == e[1] = k IN SelectSeq(s, HasKey)

\* C7 (as claimed): the sort is stable and by key only.  With sortParams
\* enabled the pairs of the cleaned query are in key order, and the pairs with
\* one key are in the order they have in the sequence that survived the
\* filters, whatever their values.
C7_StableByKey ==
  (Returned /\ options.sortParams /\ Search(ParseUrl(inputUrl)) # <<>>) =>
    LET kept  == KeptParams(EntriesOf(result.original), options)
        after == EntriesOf(result.cleaned)
    IN  /\ KeysSorted(after)
        /\ \A i \in 1..Len(kept) : WithKey(after, kept[i][1]) = WithKey(kept, kept[i][1])

\* The port is written in the input and is the default of the input's scheme.
ExplicitDefaultPort(s) ==
  LET p == Pieces(s)
  IN  p.port # <<>> /\ NumToStr(StrToNum(p.port)) = DefaultPort(p.scheme \o <<":">>)

\* C8 (as claimed): with removeDefaultPorts enabled, an input whose explicit
\* port is its scheme's default is returned without the port and 'Removed
\* default port' is logged; an explicit port that is not the default stays and
\* nothing is logged.
C8_DefaultPortRemoved ==
  (Returned /\ options.removeDefaultPorts /\ Pieces(inputUrl).port # <<>>) =>
    IF ExplicitDefaultPort(inputUrl)
    THEN /\ ParseUrl(result.cleaned).port = <<>>
         /\ Count(result.changes, "Removed default port") = 1
    ELSE /\ ParseUrl(result.cleaned).port = NumToStr(StrToNum(Pieces(inputUrl).port))
         /\ Count(result.changes, "Removed default port") = 0

\* The positions of p that do not hold a separator right behind a separator.
SqueezeKeeps(p) == {i \in 1..Len(p) : ~(p[i] = "/" /\ i > 1 /\ p[i - 1] = "/")}

\* p with every run of separators collapsed to one.
Squeeze(p) ==
  [j \in 1..Cardinality(SqueezeKeeps(p)) |->
     p[CHOOSE i \in SqueezeKeeps(p) : Cardinality({k \in SqueezeKeeps(p) : k <= i}) = j]]

\* The path the path rule is to produce from the parsed path p.
ExpectedPath(p, o) ==
  LET collapsed == Squeeze(p)
  IN  IF o.removeTrailingSlash /\ collapsed # <<"/">> /\ collapsed[Len(collapsed)] = "/"
      THEN SubSeq(collapsed, 1, Len(collapsed) - 1)
      ELSE collapsed

\* C9: the path rule.  The cleaned path is the parsed path with every run of
\* separators collapsed and, when removeTrailingSlash is enabled and the
\* collapsed path is not the root, one trailing separator stripped; the root
\* stays "/"; 'Normalized path' is logged once when the path has changed and
\* not at all when it has not.
C9_PathRule ==
  Returned =>
    LET parsed == ParseUrl(inputUrl).pathname
        after  == ParseUrl(result.cleaned).pathname
    IN  /\ after = ExpectedPath(parsed, options)
        /\ Count(result.changes, "Normalized path") = IF after # parsed THEN 1 ELSE 0

\* C9, reached: a path with a doubled and a trailing separator has lost both,
\* with one log entry.
C9_Witness ==
  /\ Returned
  /\ options.removeTrailingSlash
  /\ ParseUrl(inputUrl).pathname = <<"/", "/", "a", "/">>
  /\ ParseUrl(result.cleaned).pathname = <<"/", "a">>
  /\ Count(result.changes, "Normalized path") = 1

\* The log entries in the order of their rules.
RuleOrder ==
  << "Upgraded to HTTPS", "Removed www prefix", "Removed default port",
     "Removed tracking parameters", "Removed URL fragment", "Normalized path" >>

\* The position of a log entry in RuleOrder, 0 for any other string.
RulePosition(c) ==
  IF \E i \in 1..Len(RuleOrder) : RuleOrder[i] = c
  THEN CHOOSE i \in 1..Len(RuleOrder) : RuleOrder[i] = c
  ELSE 0

\* s holds entries of RuleOrder only, in that order, each at most once.
InRuleOrder(s) ==
  /\ \A i \in 1..Len(s) : RulePosition(s[i]) > 0
  /\ \A i \in 1..(Len(s) - 1) : RulePosition(s[i]) < RulePosition(s[i + 1])

\* C10: the rules run in the fixed order upgrade, host, port, query, fragment,
\* path under every combination of the flags: at every point of a call, and in
\* what it returns, the changes are a subsequence of RuleOrder, so they hold
\* these six strings only and each at most once.
C10_FixedRuleOrder == InRuleOrder(cleaning.changes) /\ InRuleOrder(result.changes)

\* C10, reached: a call has logged the fragment rule and then the path rule.
C10_Witness ==
  /\ Returned
  /\ Len(result.changes) >= 2
  /\ result.changes[Len(result.changes) - 1] = "Removed URL fragment"
  /\ result.changes[Len(result.changes)] = "Normalized path"

\* C11: the original of the result is the serialization of the parsed input,
\* taken before any rule runs.  From the parse on, the local originalUrl holds
\* it and nothing changes it, and the result carries it whatever the flags
\* and whatever the outcome of the request: it depends on the input alone,
\* and it is neither the literal input nor touched by the rules that rewrite
\* the URL object.
C11_OriginalIsParsedInput ==
  /\ pc \in {"awaiting", "returned"} => originalUrl = Href(ParseUrl(inputUrl))
  /\ Returned => result.original = Href(ParseUrl(inputUrl))

\* C11, reached: "HTTP://WWW.Example.COM" was upgraded and lost its www
\* label; its original is neither the input as typed nor the cleaned URL.
C11_Witness ==
  /\ Returned
  /\ fetch = "ok"
  /\ inputUrl = URL_UPPER
  /\ options = DefaultOptions
  /\ result.original # inputUrl
  /\ result.original # result.cleaned
  /\ result.changes = <<"Upgraded to HTTPS", "Removed www prefix">>

\* The URL object of the input and that of the cleaned URL.
UrlBefore == ParseUrl(inputUrl)

UrlAfter == ParseUrl(result.cleaned)

Logged(c) == Count(result.changes, c) > 0

\* tryHttps disabled: no request at any point, the scheme kept, no log entry.
SchemeRuleOff ==
  ~options.tryHttps =>
    /\ requests = <<>>
    /\ Returned => UrlAfter.protocol = UrlBefore.protocol /\ ~Logged("Upgraded to HTTPS")

\* removeWww disabled: the host kept, no log entry.
WwwRuleOff ==
  (Returned /\ ~options.removeWww) =>
    UrlAfter.hostname = UrlBefore.hostname /\ ~Logged("Removed www prefix")

\* removeDefaultPorts disabled: the port kept, no log entry.
PortRuleOff ==
  (Returned /\ ~options.removeDefaultPorts) =>
    UrlAfter.port = UrlBefore.port /\ ~Logged("Removed default port")

\* removeFragment disabled: the fragment kept, no log entry.
FragmentRuleOff ==
  (Returned /\ ~options.removeFragment) =>
    /\ UrlAfter.hasFragment = UrlBefore.hasFragment
    /\ UrlAfter.fragment = UrlBefore.fragment
    /\ ~Logged("Removed URL fragment")

\* removeTrailingSlash disabled: a path that ends with a separator still does.
TrailingSlashOff ==
  (Returned /\ ~options.removeTrailingSlash /\ EndsWith(UrlBefore.pathname, <<"/">>)) =>
    EndsWith(UrlAfter.pathname, <<"/">>)

\* The three query flags disabled: the pairs kept as they are, no log entry.
QueryRuleOff ==
  (Returned /\ ~options.removeTracking /\ ~options.removeEmptyParams /\ ~options.sortParams) =>
    /\ SearchParams(Search(UrlAfter)) = SearchParams(Search(UrlBefore))
    /\ ~Logged("Removed tracking parameters")

\* C12 (as claimed): the rules are independently togglable.  A disabled rule
\* leaves its component as the parse gave it and never logs its entry: the
\* scheme (and no request is sent), the host, the port, the fragment, the
\* trailing separator, and, with the three query flags disabled, the sequence
\* of query pairs.
C12_IndependentToggles ==
  /\ SchemeRuleOff
  /\ WwwRuleOff
  /\ PortRuleOff
  /\ FragmentRuleOff
  /\ TrailingSlashOff
  /\ QueryRuleOff

\* The query of a URL object as URLSearchParams serializes it.
SerializedQuery(u) == ParamsToString(SearchParams(Search(u)))

\* C14 (as claimed): query-change logging.  When the query of the input is not
\* empty, 'Removed tracking parameters' is logged exactly when the serialized
\* query after the cleanup differs in length from the serialized query before
\* it, both measured without the leading '?'; so it is not logged when no
\* pair is removed, as for a query that is already clean or only reordered.
C14_QueryChangeLogged ==
  (Returned /\ Search(UrlBefore) # <<>>) =>
    (Logged("Removed tracking parameters")
       <=> Len(SerializedQuery(UrlAfter)) # Len(SerializedQuery(UrlBefore)))

\* The pairs of s that the enabled filters let through, in their order.
Surviving(s, o) ==
  LET Stays(e) == /\ ~(o.removeTracking /\ IsTrackingKey(e[1]))
                  /\ ~(o.removeEmptyParams /\ e[2] = <<>>)
  IN  SelectSeq(s, Stays)

\* s and t hold the same pairs, each as often in the one as in the other.
SamePairs(s, t) ==
  /\ Len(s) = Len(t)
  /\ \A i \in 1..Len(s) : Count(t, s[i]) = Count(s, s[i])

\* C15: query filtering.  The pairs of the cleaned query are the pairs of the
\* input minus, with removeTracking, those whose key is classified as tracking
\* and minus, with removeEmptyParams, those whose value is empty: in their
\* original order when sortParams is disabled, and the same pairs counted with
\* their duplicates when it is enabled.  No pair is added or merged and no key
\* or value is altered by the serialization.
C15_QueryFiltering ==
  Returned =>
    LET before   == SearchParams(Search(UrlBefore))
        after    == SearchParams(Search(UrlAfter))
        expected == Surviving(before, options)
    IN  IF options.sortParams THEN SamePairs(after, expected) ELSE after = expected

\* C15, reached: of fbclid=123&q=test&ref=social only q=test is left.
C15_Witness ==
  /\ Returned
  /\ inputUrl = URL_TEST_3
  /\ options = [DefaultOptions EXCEPT !.sortParams = FALSE]
  /\ Len(SearchParams(Search(UrlBefore))) = 3
  /\ SearchParams(Search(UrlAfter)) = << << <<"q">>, <<"t", "e", "s", "t">> >> >>

\* The one request of the call was answered with an ok response.
ProbeSucceeded == requests # <<>> /\ fetch = "ok"

\* C17: the HTTPS upgrade is gated.  A call sends at most one request, and
\* sends it exactly when tryHttps is enabled and the parsed scheme is http, to
\* the https form of the parsed URL; the scheme is rewritten to https and
\* 'Upgraded to HTTPS' is logged, once, exactly when that request was answered
\* with an ok response; an https input is never requested, never logs the
\* upgrade and stays https.
C17_UpgradeGating ==
  /\ Len(requests) <= 1
  /\ pc \in {"awaiting", "returned"} =>
       /\ requests # <<>> <=> (options.tryHttps /\ UrlBefore.protocol = HTTP_COLON)
       /\ requests # <<>> =>
            requests[1] = HTTPS_COLON \o From(Href(UrlBefore), Len(HTTP_COLON) + 1)
  /\ Returned =>
       /\ Logged("Upgraded to HTTPS") <=> ProbeSucceeded
       /\ Count(result.changes, "Upgraded to HTTPS") <= 1
       /\ UrlAfter.protocol = (IF ProbeSucceeded THEN HTTPS_COLON ELSE UrlBefore.protocol)
       /\ UrlBefore.protocol = HTTPS_COLON => requests = <<>>

\* C17, reached: the first test URL was requested once, as https, the answer
\* was ok and the upgrade is logged first.
C17_Witness ==
  /\ Returned
  /\ inputUrl = URL_TEST_1
  /\ fetch = "ok"
  /\ Len(requests) = 1
  /\ StartsWith(requests[1], HTTPS_COLON)
  /\ result.changes[1] = "Upgraded to HTTPS"
  /\ UrlAfter.protocol = HTTPS_COLON

\* The call has completed, with a result or with the error.
Completed == pc \in {"returned", "thrown"}

\* A call whose request is sent with the timer armed completes.
CompletesWhenArmed == (timer = "armed") ~> Completed

MaxTokens == 2

\* Pieces of names: what the patterns look for, names of the two tables, and
\* pieces that are in neither.
NameTokens ==
  { <<"_">>,
    <<"s", "_">>,
    <<"i", "d">>,
    <<"c", "l", "i", "c", "k">>,
    <<"t", "r", "a", "c", "k">>,
    <<"r", "e", "f">>,
    <<"s", "r", "c">>,
    <<"c", "a", "m", "p", "a", "i", "g", "n">>,
    <<"a", "f", "f", "i", "l", "i", "a", "t", "e">>,
    <<"p", "a", "g", "e">>,
    <<"q">>,
    <<"x">>,
    <<"s", "o", "r", "t">>,
    <<"u", "t", "m", "_", "s", "o", "u", "r", "c", "e">>,
    <<"f", "b", "c", "l", "i", "d">>,
    <<"e", "r">> }

\* The names made of k of these pieces.
RECURSIVE NamesOf(_)
NamesOf(k) ==
  IF k = 0 THEN {<<>>} ELSE {t \o n : t \in NameTokens, n \in NamesOf(k - 1)}

\* Every name of at most MaxTokens pieces, in its letter cases.
ParamNames == UNION {CaseVariants(n) : n \in UNION {NamesOf(k) : k \in 0..MaxTokens}}

\* No call of cleanUrl is under way.
CleanUrlIdle ==
  /\ pc = "idle"
  /\ inputUrl = <<>>
  /\ options = DefaultOptions
  /\ cleaning = [url |-> NoUrl, changes |-> <<>>]
  /\ originalUrl = <<>>
  /\ fetch = "none"
  /\ requests = <<>>
  /\ result = NoResult
  /\ error = <<>>
  /\ timer = "none"

ClassifierInit ==
  /\ param \in ParamNames
  /\ verdict = "none"
  /\ CleanUrlIdle
  /\ TidyIdle

\* shouldRemove for the key param, removeTracking being enabled.
Classify ==
  /\ verdict = "none"
  /\ verdict' = IF IsTrackingKey(param) THEN "remove" ELSE "keep"
  /\ UNCHANGED <<param, cleanUrlVars, tidyVars>>

ClassifierNext == Classify

ClassifierSpec == ClassifierInit /\ [][ClassifierNext]_vars

\* n with its capital letters made small.
Lowered(n) == [i \in 1..Len(n) |-> IF IsUpper(n[i]) THEN FromCode(Code(n[i]) + 32) ELSE n[i]]

\* t occurs in n.
Occurs(n, t) == \E i \in 1..(Len(n) - Len(t) + 1) : SubSeq(n, i, i + Len(t) - 1) = t

\* ref, refer, referr, referrer
ReferrerTokens ==
  { <<"r", "e", "f">>,
    <<"r", "e", "f", "e", "r">>,
    <<"r", "e", "f", "e", "r", "r">>,
    <<"r", "e", "f", "e", "r", "r", "e", "r">> }

\* The decision as the claim words it, on the lower-cased name.
ClaimedTracking(n) ==
  LET l == Lowered(n)
  IN  /\ l \notin PARAMS_TO_KEEP
      /\ \/ l \in PARAMS_TO_REMOVE
         \/ Len(l) >= 1 /\ l[1] = "_"
         \/ Len(l) >= 2 /\ SubSeq(l, Len(l) - 1, Len(l)) = <<"i", "d">>
         \/ \E t \in {CLICK, TRACK, CAMPAIGN, AFFILIATE} : Occurs(l, t)
         \/ \E t \in ReferrerTokens : Occurs(l, t)
         \/ l = <<"s", "r", "c">>
         \/ Len(l) >= 2 /\ SubSeq(l, 1, 2) = <<"s", "_">>

\* C16: the classification is a function of the lower-cased name.  Every name
\* is decided as its lower-cased form is, and it is decided 'tracking' exactly
\* when the lower-cased name is not allow-listed and is deny-listed, or begins
\* with '_', or ends with 'id', or contains 'click', 'track', 'campaign' or
\* 'affiliate', or contains a referrer token, or is 'src', or begins with
\* 's_'.  The two tables are the same in every state.
C16_Classification ==
  verdict # "none" =>
    /\ verdict = (IF ClaimedTracking(param) THEN "remove" ELSE "keep")
    /\ IsTrackingKey(param) = IsTrackingKey(Lowered(param))

\* C16, reached: "XREF", which only the unanchored referrer pattern matches
\* and only in lower case, is decided 'tracking'.
C16_Witness ==
  /\ verdict = "remove"
  /\ param = <<"X", "R", "E", "F">>

(***************************************************************************)
(* processNotionUrls of tidy-urls.js.  The function runs from one await to *)
(* the next: the retrieval of a database, the query of its pages, and the  *)
(* Promise.all of a batch, whose tasks each await cleanUrl and, when they  *)
(* write, updatePageUrl.                                                   *)
(***************************************************************************)
MaxBatch == 2

\* Every flag of CLEANING_OPTIONS is set.
CLEANING_OPTIONS == [n \in OptionNames |-> TRUE]

\* NOTION_DATABASE_IDS names three databases.
DATABASE_IDS == <<"db1", "db2", "db3">>

\* What Notion holds: the first database has two URL properties and three
\* pages, the second has no URL property, the third has one and one page.
findUrlProperties(dbId) ==
  CASE dbId = "db1" -> <<"Link", "Source">>
    [] dbId = "db2" -> <<>>
    [] OTHER -> <<"Link">>

getAllPages(dbId) ==
  CASE dbId = "db1" -> <<"p1", "p2", "p3">>
    [] dbId = "db2" -> <<"p0">>
    [] OTHER -> <<"p4">>

\* page.properties[prop.id]?.url, the empty string for a property not set.
PageUrl(page, prop) ==
  CASE page = "p1" /\ prop = "Link"   -> URL_TEST_1
    [] page = "p1" /\ prop = "Source" -> URL_TEST_2
    [] page = "p2" /\ prop = "Link"   -> BAD_WORDS
    [] page = "p2" /\ prop = "Source" -> <<>>
    [] page = "p3" /\ prop = "Link"   -> URL_ROOT
    [] page = "p3" /\ prop = "Source" -> URL_HTTP_8080
    [] page = "p4" /\ prop = "Link"   -> URL_UPPER
    [] OTHER -> <<>>

Min(a, b) == IF a <= b THEN a ELSE b

\* for (const dbId of DATABASE_IDS) at its k-th round, up to the await of
\* notion.databases.retrieve, or past the loop.
TopOfLoop(r, k) ==
  IF k > Len(DATABASE_IDS)
  THEN [r EXCEPT !.pc = "done", !.dbIndex = k]
  ELSE [r EXCEPT !.pc = "retrieving", !.dbIndex = k,
                 !.stats.totalDatabases = @ + 1]

\* One async callback of urlProperties.map up to its first await: it has
\* returned when the property holds no URL, and has called cleanUrl otherwise.
TaskOf(page, prop) ==
  [ page |-> page, prop |-> prop, currentUrl |-> PageUrl(page, prop),
    pc |-> IF PageUrl(page, prop) = <<>> THEN "done" ELSE "cleaning" ]

\* batch.flatMap(page => urlProperties.map(...)) for pages.slice(i, i + batchSize)
BatchTasks(pages, urlProperties, i, size) ==
  [ k \in 1..((Min(i + size, Len(pages)) - i) * Len(urlProperties)) |->
      TaskOf(pages[i + ((k - 1) \div Len(urlProperties)) + 1],
             urlProperties[((k - 1) % Len(urlProperties)) + 1]) ]

Calls(tasks) == Cardinality({k \in DOMAIN tasks : tasks[k].pc = "cleaning"})

\* The test of the batch loop and its body up to await Promise.all, or the
\* next round of the database loop.
BatchLoop(r, size) ==
  IF r.i < Len(r.pages)
  THEN [r EXCEPT !.pc = "batch",
                 !.batchPromises = BatchTasks(r.pages, r.urlProperties, r.i, size),
                 !.stats.totalUrlsProcessed =
                    @ + Calls(BatchTasks(r.pages, r.urlProperties, r.i, size))]
  ELSE TopOfLoop(r, r.dbIndex + 1)

\* The catch of the database loop and that of a task.
DatabaseError(dbId) == [what |-> "database", id |-> dbId]

PageError(page) == [what |-> "page", id |-> page]

\* The outcomes of the one call of cleanUrl: of its request when it makes
\* one, "none" when it does not.
CallOutcomes(url) ==
  IF NeedsProbe(ParseUrl(url), CLEANING_OPTIONS) THEN FetchOutcomes ELSE {"none"}

\* The write made also in a dry run.
Writes_AlsoWhenDry(dry) == TRUE

\* if (!dryRun)
Writes(dry) == ~dry

\* A caller is about to call processNotionUrls with either value of dryRun
\* and a batchSize of at most MaxBatch.
TidyInit ==
  /\ dryRun \in BOOLEAN
  /\ batchSize \in 1..MaxBatch
  /\ run = NotStarted
  /\ notionUpdates = <<>>
  /\ errorLog = <<>>
  /\ CleanUrlIdle
  /\ ClassifierIdle

\* processNotionUrls(options) up to its first await.
Begin ==
  /\ run.pc = "start"
  /\ run' = TopOfLoop(run, 1)
  /\ UNCHANGED <<dryRun, batchSize, notionUpdates, errorLog, cleanUrlVars, classifierVars>>

\* notion.databases.retrieve settles: on a rejection the catch of the loop
\* counts the error and the loop goes on; a database without URL property is
\* skipped; otherwise getAllPages is called.
RetrieveSettles(ok) ==
  /\ run.pc = "retrieving"
  /\ IF ~ok
     THEN /\ run' = TopOfLoop([run EXCEPT !.stats.errors = @ + 1], run.dbIndex + 1)
          /\ errorLog' = Append(errorLog, DatabaseError(DATABASE_IDS[run.dbIndex]))
     ELSE /\ run' = IF findUrlProperties(DATABASE_IDS[run.dbIndex]) = <<>>
                    THEN TopOfLoop(run, run.dbIndex + 1)
                    ELSE [run EXCEPT !.pc = "querying",
                                     !.urlProperties =
                                        findUrlProperties(DATABASE_IDS[run.dbIndex])]
          /\ errorLog' = errorLog
  /\ UNCHANGED <<dryRun, batchSize, notionUpdates, cleanUrlVars, classifierVars>>

\* getAllPages settles: on a rejection as above; otherwise the pages are
\* counted and the first batch is started.
QuerySettles(ok) ==
  /\ run.pc = "querying"
  /\ IF ~ok
     THEN /\ run' = TopOfLoop([run EXCEPT !.stats.errors = @ + 1], run.dbIndex + 1)
          /\ errorLog' = Append(errorLog, DatabaseError(DATABASE_IDS[run.dbIndex]))
     ELSE /\ run' = BatchLoop(
                      [run EXCEPT !.pages = getAllPages(DATABASE_IDS[run.dbIndex]),
                                  !.i = 0,
                                  !.stats.totalPages =
                                     @ + Len(getAllPages(DATABASE_IDS[run.dbIndex]))],
                      batchSize)
          /\ errorLog' = errorLog
  /\ UNCHANGED <<dryRun, batchSize, notionUpdates, cleanUrlVars, classifierVars>>

\* The ways the call cleanUrl(url, CLEANING_OPTIONS) can settle: rejected
\* with the invalid-URL error, or resolved with a result for one of the
\* outcomes of its request.
CleanUrlSettlements(url) ==
  IF ~CanParse(url)
  THEN {[threw |-> TRUE, cleaned |-> <<>>]}
  ELSE {[threw |-> FALSE, cleaned |-> CleanUrl(url, CLEANING_OPTIONS, outcome).cleaned] :
          outcome \in CallOutcomes(url)}

\* The cleanUrl call of task k settles and the task runs on to its end or to
\* the await of updatePageUrl.
CleanSettles(k) ==
  /\ run.pc = "batch"
  /\ run.batchPromises[k].pc = "cleaning"
  /\ \E settled \in CleanUrlSettlements(run.batchPromises[k].currentUrl) :
       IF settled.threw
       THEN /\ run' = [run EXCEPT !.batchPromises[k].pc = "done", !.stats.errors = @ + 1]
            /\ errorLog' = Append(errorLog, PageError(run.batchPromises[k].page))
            /\ UNCHANGED notionUpdates
       ELSE /\ errorLog' = errorLog
            /\ IF settled.cleaned # run.batchPromises[k].currentUrl
               THEN IF Writes(dryRun)
                    THEN /\ run' = [run EXCEPT !.batchPromises[k].pc = "updating",
                                               !.stats.totalUrlsChanged = @ + 1]
                         /\ notionUpdates' =
                              Append(notionUpdates,
                                     [ page_id |-> run.batchPromises[k].page,
                                       property |-> run.batchPromises[k].prop,
                                       url |-> settled.cleaned ])
                    ELSE /\ run' = [run EXCEPT !.batchPromises[k].pc = "done",
                                               !.stats.totalUrlsChanged = @ + 1]
                         /\ UNCHANGED notionUpdates
               ELSE /\ run' = [run EXCEPT !.batchPromises[k].pc = "done"]
                    /\ UNCHANGED notionUpdates
  /\ UNCHANGED <<dryRun, batchSize, cleanUrlVars, classifierVars>>

\* notion.pages.update of task k settles; a rejection is counted by the
\* catch of the task.
UpdateSettles(k, ok) ==
  /\ run.pc = "batch"
  /\ run.batchPromises[k].pc = "updating"
  /\ IF ok
     THEN /\ run' = [run EXCEPT !.batchPromises[k].pc = "done"]
          /\ errorLog' = errorLog
     ELSE /\ run' = [run EXCEPT !.batchPromises[k].pc = "done", !.stats.errors = @ + 1]
          /\ errorLog' = Append(errorLog, PageError(run.batchPromises[k].page))
  /\ UNCHANGED <<dryRun, batchSize, notionUpdates, cleanUrlVars, classifierVars>>

\* Promise.all(batchPromises) resolves, every task having ended: the next
\* batch, the next database or the summary.
BatchSettles ==
  /\ run.pc = "batch"
  /\ \A k \in DOMAIN run.batchPromises : run.batchPromises[k].pc = "done"
  /\ run' = BatchLoop([run EXCEPT !.i = @ + batchSize, !.batchPromises = <<>>], batchSize)
  /\ UNCHANGED <<dryRun, batchSize, notionUpdates, errorLog, cleanUrlVars, classifierVars>>

TidyNext ==
  \/ Begin
  \/ \E ok \in BOOLEAN : RetrieveSettles(ok)
  \/ \E ok \in BOOLEAN : QuerySettles(ok)
  \/ \E k \in DOMAIN run.batchPromises : CleanSettles(k)
  \/ \E k \in DOMAIN run.batchPromises, ok \in BOOLEAN : UpdateSettles(k, ok)
  \/ BatchSettles

TidySpec == TidyInit /\ [][TidyNext]_vars

\* The elements of a sequence.
Range(q) == {q[k] : k \in DOMAIN q}

InFlight == Calls(run.batchPromises)

\* At most batchSize calls of cleanUrl are in flight.
InFlightBounded == InFlight <= batchSize

\* Every task that exists belongs to a page of the batch at i.
BatchBarrier ==
  \A k \in DOMAIN run.batchPromises :
    \E j \in (run.i + 1)..Min(run.i + batchSize, Len(run.pages)) :
      run.pages[j] = run.batchPromises[k].page

\* The databases that were read without an error.
DatabasesRead ==
  { db \in Range(DATABASE_IDS) :
      findUrlProperties(db) # <<>> /\ DatabaseError(db) \notin Range(errorLog) }

\* Every failure is counted and reported once, and the run still ends having
\* tried every database and every URL of the databases it could read.
ErrorsIsolated ==
  /\ run.stats.errors = Len(errorLog)
  /\ run.pc = "done" =>
       /\ run.stats.totalDatabases = Len(DATABASE_IDS)
       /\ run.stats.totalUrlsProcessed =
            Cardinality({ c \in UNION { {<<pg, pr>> : pg \in Range(getAllPages(db)),
                                                       pr \in Range(findUrlProperties(db))} :
                                          db \in DatabasesRead } :
                          PageUrl(c[1], c[2]) # <<>> })

\* C19 (as claimed): batch throttling.  batchSize is the number of concurrent
\* URL checks: never more than batchSize calls of cleanUrl are in flight; the
\* tasks of a batch have all settled before the next batch starts; and a
\* failure of one task or of one database is counted without keeping the
\* other tasks, the later batches or the later databases from running.
C19_BatchThrottling ==
  /\ InFlightBounded
  /\ BatchBarrier
  /\ ErrorsIsolated

====
